---- MODULE Spec2Model ----
(***************************************************************************)
(* A model of config/utils.py of pytorch_neural_crf: the batch dispatcher  *)
(* and its two batch assemblers, the tokenization aligner, the optimizer   *)
(* factory, the learning-rate scheduler, the embedding loader and the      *)
(* result writer.  Tensors are sequences (rows) of sequences; an exception *)
(* raised by the code is a terminal value of the caller's position.        *)
(***************************************************************************)
EXTENDS Integers, Sequences, FiniteSets, TLC

VARIABLES
    config,         \* batching: batch_size, embedder_type, char2idx[PAD], labelled data
    insts,          \* batching: the list of Instances
    batched_data,   \* batching_list_instances: the batches appended so far
    batch_id,       \* batching_list_instances: the loop counter
    calls,          \* the chunks the assemblers were called on, in call order
    pc,             \* position of the batching pipeline
    w_insts,        \* write_results: the instances to write
    f_lines,        \* write_results: the lines written to the file so far
    w_k,            \* write_results: index of the instance being written
    w_i,            \* write_results: index of the token being written
    w_pc,           \* write_results: position
    all_vecs,       \* load_elmo_vec: the unpickled matrices (as shapes)
    e_insts,        \* load_elmo_vec: the instances (word count, elmo_vec)
    e_k,            \* load_elmo_vec: number of zip pairs processed
    size,           \* load_elmo_vec: the local `size`
    e_pc,           \* load_elmo_vec: position
    o_config,       \* optimizer: optimizer name, learning_rate, l2, lr_decay
    optimizer,      \* optimizer: the optimizer object (kind, param_groups)
    stdout,         \* optimizer: what get_optimizer printed
    last_epoch,     \* optimizer: epoch of the most recent lr_decay call (0: none)
    o_pc            \* optimizer: position

batchVars == <<config, insts, batched_data, batch_id, calls, pc>>
writeVars == <<w_insts, f_lines, w_k, w_i, w_pc>>
elmoVars  == <<all_vecs, e_insts, e_k, size, e_pc>>
optVars   == <<o_config, optimizer, stdout, last_epoch, o_pc>>
vars      == <<batchVars, writeVars, elmoVars, optVars>>

(* ------------------------------ bounds -------------------------------- *)
MaxInsts == 2       \* longest instance list given to the dispatcher
MaxWords == 2       \* most words in one sentence
MaxBatch == 2       \* largest configured batch size
MaxEpoch == 3       \* largest epoch number given to lr_decay
MaxCalls == 2       \* most lr_decay calls in one run
MaxGroups == 2      \* most parameter groups of an optimizer

(* ------------------------------ helpers ------------------------------- *)
Range(s) == {s[i] : i \in DOMAIN s}

SeqsUpTo(S, n) == UNION {[1..k -> S] : k \in 0..n}

Min(a, b) == IF a <= b THEN a ELSE b

\* torch.Tensor.max() of a non-empty tensor whose entries are the set S
Max(S) == CHOOSE m \in S : \A x \in S : x <= m

\* torch.zeros([n])
zeros(n) == [j \in 1..n |-> 0]

\* row[:n] = vals   (the caller has checked Len(vals) = n <= Len(row))
SliceAssign(row, n, vals) == [j \in 1..Len(row) |-> IF j <= n THEN vals[j] ELSE row[j]]

\* row[:n] = v
SliceFill(row, n, v) == [j \in 1..Len(row) |-> IF j <= n THEN v ELSE row[j]]

(* --------------------------- the data model --------------------------- *)
\* The words of the corpus, each a sequence of characters; "zw" is a
\* zero-width (control) character.
WordSet == {<<"a", "b">>, <<"zw">>}

\* config.word2idx, config.char2idx (other than PAD) and config.label2idx
Word2Idx(word) == IF word = <<"a", "b">> THEN 2 ELSE 3
Char2Idx(c) == IF c = "a" THEN 2 ELSE IF c = "b" THEN 3 ELSE 4
Label2Idx(word) == IF word = <<"a", "b">> THEN 2 ELSE 3

\* The values config.char2idx[PAD] is drawn from
PadIds == {0, 5}

\* common.Instance as the data loader leaves it: ids of words, characters and
\* (for labelled data) gold labels; nothing tokenized yet.
Instance(words, labelled) ==
    [input |-> [words |-> words, ori_words |-> words],
     word_ids |-> [j \in 1..Len(words) |-> Word2Idx(words[j])],
     char_ids |-> [j \in 1..Len(words) |->
                      [c \in 1..Len(words[j]) |-> Char2Idx(words[j][c])]],
     output_ids |-> IF labelled THEN [j \in 1..Len(words) |-> Label2Idx(words[j])]
                    ELSE <<>>,
     orig_to_tok_index |-> <<>>]

(* ---------------------------- the tokenizer --------------------------- *)
\* The sub-word vocabulary of the tokenizer (token string -> id).
Vocab ==
    ("[PAD]" :> 0) @@ ("[UNK]" :> 1) @@ ("[CLS]" :> 2) @@ ("[SEP]" :> 3) @@
    ("a" :> 4) @@ ("b" :> 5) @@ ("##a" :> 6) @@ ("##b" :> 7)

\* the continuation piece of a character
Piece == ("a" :> "##a") @@ ("b" :> "##b")

\* PreTrainedTokenizer.tokenize(word): control characters are dropped, the
\* first remaining character is a word-initial piece, the others continue it.
tokenize(word) ==
    LET clean == SelectSeq(word, LAMBDA c : c # "zw")
    IN  [i \in 1..Len(clean) |-> IF i = 1 THEN clean[i] ELSE Piece[clean[i]]]

\* PreTrainedTokenizer.convert_tokens_to_ids(tokens): unknown tokens get [UNK]'s id
convert_tokens_to_ids(tokens) ==
    [i \in 1..Len(tokens) |->
        IF tokens[i] \in DOMAIN Vocab THEN Vocab[tokens[i]] ELSE Vocab["[UNK]"]]

(* ------------------------ tokenize_instance --------------------------- *)
\* `tokens` after the first k words of the sentence have been processed
RECURSIVE tokens_after(_, _)
tokens_after(ori_words, k) ==
    IF k = 0 THEN <<>>
    ELSE tokens_after(ori_words, k - 1) \o tokenize(ori_words[k])

\* A plausible slip: the last word piece of each word is recorded instead.
orig_index_last_piece(ori_words) ==
    [i \in 1..Len(ori_words) |->
        IF Len(tokens_after(ori_words, i)) = 0 THEN 0
        ELSE Len(tokens_after(ori_words, i)) - 1]

\* orig_to_tok_index.append(len(tokens)) at the top of every iteration
orig_index(ori_words) ==
    [i \in 1..Len(ori_words) |-> Len(tokens_after(ori_words, i - 1))]

\* the body of the loop over insts
tokenize_one(inst) ==
    LET tokens == tokens_after(inst.input.ori_words, Len(inst.input.ori_words))
    IN  [inst EXCEPT
            !.word_ids = convert_tokens_to_ids(<<"[CLS]">> \o tokens \o <<"SEP">>),
            !.orig_to_tok_index = orig_index(inst.input.ori_words)]

tokenize_instance(is) == [k \in 1..Len(is) |-> tokenize_one(is[k])]

(* --------------------------- bert_batching ---------------------------- *)
\* A plausible slip: the mask is filled up to the word count, not the token count.
bert_input_mask_by_words(is, max_tok_seq_len) ==
    [idx \in 1..Len(is) |->
        SliceFill(zeros(max_tok_seq_len), Len(is[idx].input.words), 1)]

\* input_mask: zeros, then input_mask[idx, :token_seq_len[idx]] = 1
bert_input_mask(is, max_tok_seq_len) ==
    [idx \in 1..Len(is) |->
        SliceFill(zeros(max_tok_seq_len), Len(is[idx].word_ids), 1)]

\* word_seq_tensor: zeros, then word_seq_tensor[idx, :token_seq_len[idx]] = word_ids
bert_word_seq_tensor(is, max_tok_seq_len) ==
    [idx \in 1..Len(is) |->
        SliceAssign(zeros(max_tok_seq_len), Len(is[idx].word_ids), is[idx].word_ids)]

\* label_seq_tensor: zeros, then the row prefix is set when output_ids is truthy
label_seq_tensor(is, max_seq_len) ==
    [idx \in 1..Len(is) |->
        IF is[idx].output_ids # <<>>
        THEN SliceAssign(zeros(max_seq_len), Len(is[idx].input.words), is[idx].output_ids)
        ELSE zeros(max_seq_len)]

\* bert_batching raises: max() of a tensor without elements (an empty chunk),
\* or a slice assignment of the loop between unequal lengths.
bert_batching_raises(is) ==
    \/ Len(is) = 0
    \/ \E idx \in 1..Len(is) :
        \/ Len(is[idx].orig_to_tok_index) # Len(is[idx].input.words)
        \/ /\ is[idx].output_ids # <<>>
           /\ Len(is[idx].output_ids) # Len(is[idx].input.words)

\* the batch bert_batching returns when it does not raise
bert_batching(cfg, is) ==
    LET batch_size == Len(is)
        word_seq_len == [idx \in 1..batch_size |-> Len(is[idx].input.words)]
        max_seq_len == Max(Range(word_seq_len))
        token_seq_len == [idx \in 1..batch_size |-> Len(is[idx].word_ids)]
        max_tok_seq_len == Max(Range(token_seq_len))
    IN  [words |-> bert_word_seq_tensor(is, max_tok_seq_len),
         word_seq_lens |-> word_seq_len,
         orig_to_tok_index |->
            [idx \in 1..batch_size |->
                SliceAssign(zeros(max_seq_len), word_seq_len[idx],
                            is[idx].orig_to_tok_index)],
         input_mask |-> bert_input_mask(is, max_tok_seq_len),
         labels |-> label_seq_tensor(is, max_seq_len)]

(* -------------------------- simple_batching --------------------------- *)
\* A plausible slip: padding words get character length 0.
char_seq_len_zero_pad(is, max_seq_len) ==
    [idx \in 1..Len(is) |->
        [j \in 1..max_seq_len |->
            IF j <= Len(is[idx].input.words) THEN Len(is[idx].input.words[j]) ELSE 0]]

\* char_seq_len: list(map(len, words)) + [1] * (max_seq_len - len(words))
char_seq_len_of(is, max_seq_len) ==
    [idx \in 1..Len(is) |->
        [j \in 1..max_seq_len |->
            IF j <= Len(is[idx].input.words) THEN Len(is[idx].input.words[j]) ELSE 1]]

\* A plausible slip: the whole row is overwritten with the word ids, padded
\* with the last id.
simple_word_seq_tensor_smear(is, max_seq_len) ==
    [idx \in 1..Len(is) |->
        [j \in 1..max_seq_len |->
            IF Len(is[idx].word_ids) = 0 THEN 0
            ELSE is[idx].word_ids[Min(j, Len(is[idx].word_ids))]]]

\* word_seq_tensor: zeros, then word_seq_tensor[idx, :word_seq_len[idx]] = word_ids
simple_word_seq_tensor(is, max_seq_len) ==
    [idx \in 1..Len(is) |->
        SliceAssign(zeros(max_seq_len), Len(is[idx].input.words), is[idx].word_ids)]

\* char_seq_tensor: zeros; real words get their character ids, padding words
\* get config.char2idx[PAD] at character position 0
char_seq_tensor(cfg, is, max_seq_len, char_seq_len, max_char_seq_len) ==
    [idx \in 1..Len(is) |->
        [j \in 1..max_seq_len |->
            IF j <= Len(is[idx].input.words)
            THEN SliceAssign(zeros(max_char_seq_len), char_seq_len[idx][j],
                             is[idx].char_ids[j])
            ELSE SliceAssign(zeros(max_char_seq_len), 1, <<cfg.char2idx_PAD>>)]]

\* simple_batching raises: max() of a tensor without elements (an empty chunk:
\* word_seq_len.max(); a chunk whose sentences all have no word:
\* char_seq_len.max() of a batch_size x 0 tensor), or a slice assignment of the
\* loop between unequal lengths.
simple_batching_raises(is) ==
    \/ Len(is) = 0
    \/ \A idx \in 1..Len(is) : Len(is[idx].input.words) = 0
    \/ \E idx \in 1..Len(is) :
        \/ Len(is[idx].word_ids) # Len(is[idx].input.words)
        \/ Len(is[idx].char_ids) # Len(is[idx].input.words)
        \/ \E j \in 1..Len(is[idx].input.words) :
               Len(is[idx].char_ids[j]) # Len(is[idx].input.words[j])
        \/ /\ is[idx].output_ids # <<>>
           /\ Len(is[idx].output_ids) # Len(is[idx].input.words)

\* the batch simple_batching returns when it does not raise
\* (config.context_emb is ContextEmb.none here: context_emb stays None)
simple_batching(cfg, is) ==
    LET batch_size == Len(is)
        word_seq_len == [idx \in 1..batch_size |-> Len(is[idx].input.words)]
        max_seq_len == Max(Range(word_seq_len))
        char_seq_len == char_seq_len_of(is, max_seq_len)
        max_char_seq_len ==
                Max(UNION {Range(char_seq_len[idx]) : idx \in 1..batch_size})
        IN  [words |-> simple_word_seq_tensor(is, max_seq_len),
             word_seq_lens |-> word_seq_len,
             context_emb |-> "None",
             chars |-> char_seq_tensor(cfg, is, max_seq_len, char_seq_len,
                                       max_char_seq_len),
             char_seq_lens |-> char_seq_len,
             labels |-> label_seq_tensor(is, max_seq_len)]

(* ---------------------- batching_list_instances ----------------------- *)
train_num == Len(insts)

total_batch ==
    IF train_num % config.batch_size # 0
    THEN train_num \div config.batch_size + 1
    ELSE train_num \div config.batch_size

\* insts[batch_id * batch_size : (batch_id + 1) * batch_size]
one_batch_insts(k) ==
    SubSeq(insts, k * config.batch_size + 1,
           Min((k + 1) * config.batch_size, train_num))

IsBert == config.embedder_type # "normal"

\* The instance lists and configurations the pipeline is started on.
SentenceSet == SeqsUpTo(WordSet, MaxWords)

InstLists ==
    UNION {{[k \in 1..Len(ws) |-> Instance(ws[k], labelled)] :
                ws \in SeqsUpTo(SentenceSet, MaxInsts)} : labelled \in BOOLEAN}

Configs ==
    [batch_size : 1..MaxBatch, embedder_type : {"normal"}, char2idx_PAD : PadIds]
    \cup [batch_size : 1..MaxBatch, embedder_type : {"bert-base-cased"},
          char2idx_PAD : {0}]

BatchInit ==
    /\ config \in Configs
    /\ insts \in InstLists
    /\ batched_data = <<>>
    /\ batch_id = 0
    /\ calls = <<>>
    /\ pc = IF IsBert THEN "tokenize" ELSE "batching"

BatchIdle ==
    /\ config = [batch_size |-> 1, embedder_type |-> "normal", char2idx_PAD |-> 0]
    /\ insts = <<>>
    /\ batched_data = <<>>
    /\ batch_id = 0
    /\ calls = <<>>
    /\ pc = "idle"

\* tokenize_instance(tokenizer, insts), run before batching for a transformer embedder
TokenizeInstance ==
    /\ pc = "tokenize"
    /\ insts' = tokenize_instance(insts)
    /\ pc' = "batching"
    /\ UNCHANGED <<config, batched_data, batch_id, calls>>

\* one iteration of the loop of batching_list_instances
BatchingLoop ==
    /\ pc = "batching"
    /\ batch_id < total_batch
    /\ LET chunk == one_batch_insts(batch_id)
       IN  /\ calls' = Append(calls, chunk)
           /\ IF IsBert
              THEN IF bert_batching_raises(chunk)
                   THEN pc' = "raised" /\ UNCHANGED <<batched_data, batch_id>>
                   ELSE /\ batched_data' = Append(batched_data, bert_batching(config, chunk))
                        /\ batch_id' = batch_id + 1
                        /\ pc' = pc
              ELSE IF simple_batching_raises(chunk)
                   THEN pc' = "raised" /\ UNCHANGED <<batched_data, batch_id>>
                   ELSE /\ batched_data' = Append(batched_data, simple_batching(config, chunk))
                        /\ batch_id' = batch_id + 1
                        /\ pc' = pc
    /\ UNCHANGED <<config, insts>>

\* the loop is over: return batched_data
BatchingReturn ==
    /\ pc = "batching"
    /\ batch_id = total_batch
    /\ pc' = "done"
    /\ UNCHANGED <<config, insts, batched_data, batch_id, calls>>

(* ---------------------------- write_results --------------------------- *)
Labels == {"O", "B"}

\* An instance as the writer sees it: the gold labels came with the words, the
\* prediction was attached after inference.
WInsts ==
    {[input |-> [ori_words |-> [j \in 1..n |-> "w"]],
      output |-> [j \in 1..n |-> "O"],
      prediction |-> p] : n \in 0..MaxWords, p \in SeqsUpTo(Labels, MaxWords)}

WriteInit ==
    /\ w_insts \in SeqsUpTo(WInsts, MaxInsts)
    /\ f_lines = <<>>
    /\ w_k = 1
    /\ w_i = 0
    /\ w_pc = "run"

WriteIdle ==
    /\ w_insts = <<>>
    /\ f_lines = <<>>
    /\ w_k = 1
    /\ w_i = 0
    /\ w_pc = "idle"

\* one iteration of `for i in range(len(inst.input))`: the assertion, then the line
WriteToken ==
    /\ w_pc = "run"
    /\ w_k <= Len(w_insts)
    /\ w_i < Len(w_insts[w_k].input.ori_words)
    /\ LET inst == w_insts[w_k]
           words == inst.input.ori_words
           output == inst.output
           prediction == inst.prediction
       IN  IF Len(output) # Len(prediction)
           THEN w_pc' = "AssertionError" /\ UNCHANGED <<f_lines, w_i>>
           ELSE IF w_i >= Len(output)
           THEN w_pc' = "IndexError" /\ UNCHANGED <<f_lines, w_i>>
           ELSE /\ f_lines' = Append(f_lines,
                        <<w_i, words[w_i + 1], output[w_i + 1], prediction[w_i + 1]>>)
                /\ w_i' = w_i + 1
                /\ w_pc' = w_pc
    /\ UNCHANGED <<w_insts, w_k>>

\* the inner loop is over: f.write("\n"), next instance
WriteBlank ==
    /\ w_pc = "run"
    /\ w_k <= Len(w_insts)
    /\ w_i = Len(w_insts[w_k].input.ori_words)
    /\ f_lines' = Append(f_lines, <<>>)
    /\ w_k' = w_k + 1
    /\ w_i' = 0
    /\ UNCHANGED <<w_insts, w_pc>>

\* the outer loop is over: f.close(), return
WriteClose ==
    /\ w_pc = "run"
    /\ w_k > Len(w_insts)
    /\ w_pc' = "done"
    /\ UNCHANGED <<w_insts, f_lines, w_k, w_i>>

(* ---------------------------- load_elmo_vec --------------------------- *)
None == [rows |-> -1, cols |-> -1]

\* second dimensions of the pickled matrices
EmbSizes == {1, 2}

Vecs == [rows : 0..MaxWords, cols : EmbSizes]

\* zip(all_vecs, insts) stops at the shorter of the two
n_pairs == Min(Len(all_vecs), Len(e_insts))

ElmoInit ==
    /\ all_vecs \in SeqsUpTo(Vecs, MaxInsts)
    /\ e_insts \in SeqsUpTo([n_words : 0..MaxWords, elmo_vec : {None}], MaxInsts)
    /\ e_k = 0
    /\ size = 0
    /\ e_pc = "run"

ElmoIdle ==
    /\ all_vecs = <<>>
    /\ e_insts = <<>>
    /\ e_k = 0
    /\ size = 0
    /\ e_pc = "idle"

\* A plausible slip: the assertion comes first, so a failing pair is not attached.
LoadElmoPair_assert_first ==
    /\ e_pc = "run"
    /\ e_k < n_pairs
    /\ LET vec == all_vecs[e_k + 1]
       IN  IF vec.rows = e_insts[e_k + 1].n_words
           THEN /\ e_insts' = [e_insts EXCEPT ![e_k + 1].elmo_vec = vec]
                /\ size' = vec.cols
                /\ e_k' = e_k + 1
                /\ e_pc' = e_pc
           ELSE e_pc' = "AssertionError" /\ UNCHANGED <<e_insts, size, e_k>>
    /\ UNCHANGED all_vecs

\* one iteration of `for vec, inst in zip(all_vecs, insts)`
LoadElmoPair ==
    /\ e_pc = "run"
    /\ e_k < n_pairs
    /\ LET vec == all_vecs[e_k + 1]
       IN  /\ e_insts' = [e_insts EXCEPT ![e_k + 1].elmo_vec = vec]
           /\ size' = vec.cols
           /\ IF vec.rows = e_insts[e_k + 1].n_words
              THEN e_k' = e_k + 1 /\ e_pc' = e_pc
              ELSE e_pc' = "AssertionError" /\ UNCHANGED e_k
    /\ UNCHANGED all_vecs

\* the loop is over: return size
LoadElmoReturn ==
    /\ e_pc = "run"
    /\ e_k = n_pairs
    /\ e_pc' = "done"
    /\ UNCHANGED <<all_vecs, e_insts, e_k, size>>

(* ------------------------ floats, as exact rationals ------------------ *)
RECURSIVE GCD(_, _)
GCD(a, b) == IF b = 0 THEN a ELSE GCD(b, a % b)

\* the rational n/d in lowest terms (n >= 0, d > 0)
Rat(n, d) == <<n \div GCD(n, d), d \div GCD(n, d)>>

Zero == Rat(0, 1)

(* ---------------------------- get_optimizer --------------------------- *)
\* str.lower() on the letters the names are written with
LowerChar(c) ==
    CASE c = "A" -> "a" [] c = "D" -> "d" [] c = "G" -> "g" [] c = "M" -> "m"
      [] c = "S" -> "s" [] c = "W" -> "w" [] OTHER -> c

lower(name) == [i \in 1..Len(name) |-> LowerChar(name[i])]

\* A plausible slip: the name is compared as configured.
lower_forgotten(name) == name

\* config.optimizer.lower(), the key of the if/elif chain
optimizer_key(name) == lower(name)

\* The configured optimizer names tried.
Names ==
    {<<"s","g","d">>, <<"S","G","D">>, <<"S","g","d">>,
     <<"a","d","a","m">>, <<"A","d","a","m">>, <<"A","D","A","M">>,
     <<"a","d","a","m","w">>, <<"A","d","a","m","W">>, <<"A","D","A","M","W">>,
     <<"a","d","a">>, <<"r","m","s">>, <<>>}

LearningRates == {Rat(1, 10), Rat(1, 100)}
Decays == {Zero, Rat(1, 20)}
L2s == {Zero, Rat(1, 100000000)}

OConfigs ==
    [optimizer : Names, learning_rate : LearningRates, l2 : L2s, lr_decay : Decays]

NoOptimizer == [kind |-> "None", param_groups |-> <<>>]

\* Optimizers handed to lr_decay by a caller: any number of parameter groups,
\* each with its own learning rate and weight decay.
Groups == [lr : LearningRates, weight_decay : L2s]

Optimizers ==
    {[kind |-> "SGD", param_groups |-> gs] : gs \in SeqsUpTo(Groups, MaxGroups) \ {<<>>}}

OptInit ==
    /\ o_config \in OConfigs
    /\ \/ optimizer = NoOptimizer /\ o_pc = "config"
       \/ /\ o_config.optimizer = <<"s","g","d">>
          /\ o_config.l2 = Zero
          /\ optimizer \in Optimizers
          /\ o_pc = "ready"
    /\ stdout = <<>>
    /\ last_epoch = 0

OptIdle ==
    /\ o_config = [optimizer |-> <<>>, learning_rate |-> Zero, l2 |-> Zero,
                   lr_decay |-> Zero]
    /\ optimizer = NoOptimizer
    /\ stdout = <<>>
    /\ last_epoch = 0
    /\ o_pc = "idle"

\* get_optimizer(config, model): model.parameters() makes one parameter group
GetOptimizer ==
    /\ o_pc = "config"
    /\ LET key == optimizer_key(o_config.optimizer)
           lr == o_config.learning_rate
       IN  IF key = <<"s","g","d">>
           THEN /\ stdout' = Append(stdout, <<"Using SGD", lr, o_config.l2>>)
                /\ optimizer' = [kind |-> "SGD", param_groups |->
                        <<[lr |-> lr, weight_decay |-> o_config.l2]>>]
                /\ o_pc' = "ready"
           ELSE IF key = <<"a","d","a","m">>
           THEN /\ stdout' = Append(stdout, <<"Using Adam", lr>>)
                /\ optimizer' = [kind |-> "Adam", param_groups |->
                        <<[lr |-> lr, weight_decay |-> Zero]>>]
                /\ o_pc' = "ready"
           ELSE IF key = <<"a","d","a","m","w">>
           THEN /\ stdout' = Append(stdout, <<"Using AdamW", lr, Rat(1, 100000000)>>)
                /\ optimizer' = [kind |-> "AdamW", param_groups |->
                        <<[lr |-> lr, weight_decay |-> Zero,
                           eps |-> Rat(1, 100000000)]>>]
                /\ o_pc' = "ready"
           ELSE /\ stdout' = Append(stdout, <<"Illegal optimizer", o_config.optimizer>>)
                /\ optimizer' = optimizer
                /\ o_pc' = "exited"
    /\ UNCHANGED <<o_config, last_epoch>>

(* ------------------------------ lr_decay ------------------------------ *)
\* x / (1 + decay * (epoch - 1))
Decayed(x, decay, epoch) ==
    Rat(x[1] * decay[2], x[2] * (decay[2] + decay[1] * (epoch - 1)))

\* A plausible slip: the decay is counted from epoch 0.
decayed_lr_from_zero(epoch) ==
    Decayed(o_config.learning_rate, o_config.lr_decay, epoch + 1)

\* lr = config.learning_rate / (1 + config.lr_decay * (epoch - 1))
decayed_lr(epoch) == Decayed(o_config.learning_rate, o_config.lr_decay, epoch)

\* lr_decay(config, optimizer, epoch)
LrDecay(epoch) ==
    /\ o_pc = "ready"
    /\ Len(stdout) < MaxCalls + 1
    /\ LET lr == decayed_lr(epoch)
       IN  /\ optimizer' = [optimizer EXCEPT !.param_groups =
                    [g \in 1..Len(optimizer.param_groups) |->
                        [optimizer.param_groups[g] EXCEPT !.lr = lr]]]
           /\ stdout' = Append(stdout, <<"learning rate is set to: ", lr>>)
    /\ last_epoch' = epoch
    /\ UNCHANGED <<o_config, o_pc>>

(* --------------------------- specifications --------------------------- *)
\* The batching pipeline: tokenize_instance (transformer embedders), then
\* batching_list_instances.
Init == BatchInit /\ WriteIdle /\ ElmoIdle /\ OptIdle
Next ==
    \/ TokenizeInstance /\ UNCHANGED <<writeVars, elmoVars, optVars>>
    \/ BatchingLoop /\ UNCHANGED <<writeVars, elmoVars, optVars>>
    \/ BatchingReturn /\ UNCHANGED <<writeVars, elmoVars, optVars>>
Spec == Init /\ [][Next]_vars

\* write_results
WriteSpecInit == BatchIdle /\ WriteInit /\ ElmoIdle /\ OptIdle
WriteSpecNext ==
    \/ WriteToken /\ UNCHANGED <<batchVars, elmoVars, optVars>>
    \/ WriteBlank /\ UNCHANGED <<batchVars, elmoVars, optVars>>
    \/ WriteClose /\ UNCHANGED <<batchVars, elmoVars, optVars>>
WriteSpec == WriteSpecInit /\ [][WriteSpecNext]_vars

\* load_elmo_vec
ElmoSpecInit == BatchIdle /\ WriteIdle /\ ElmoInit /\ OptIdle
ElmoSpecNext ==
    \/ LoadElmoPair /\ UNCHANGED <<batchVars, writeVars, optVars>>
    \/ LoadElmoReturn /\ UNCHANGED <<batchVars, writeVars, optVars>>
ElmoSpec == ElmoSpecInit /\ [][ElmoSpecNext]_vars

\* get_optimizer, then lr_decay once per epoch
OptSpecInit == BatchIdle /\ WriteIdle /\ ElmoIdle /\ OptInit
OptSpecNext ==
    \/ GetOptimizer /\ UNCHANGED <<batchVars, writeVars, elmoVars>>
    \/ \E epoch \in 1..MaxEpoch :
          LrDecay(epoch) /\ UNCHANGED <<batchVars, writeVars, elmoVars>>
OptSpec == OptSpecInit /\ [][OptSpecNext]_vars

(* ------------------------------- claims ------------------------------- *)
RECURSIVE SumTo(_, _)
SumTo(f, n) == IF n = 0 THEN 0 ELSE SumTo(f, n - 1) + f[n]

\* the instance behind row i of batch k
InstOf(k, i) == insts[(k - 1) * config.batch_size + i]

\* number of instances in batch k
BatchLen(k) == Len(batched_data[k].word_seq_lens)

\* C1: for every instance list of length N and batch size B the dispatcher
\* produces (never raising) exactly ceil(N/B) batches; the k-th assembler call
\* gets the contiguous slice insts[k*B .. min((k+1)*B, N)), never an empty one;
\* every batch holds 1..B instances, only the last may hold fewer than B, and
\* the batch sizes sum to N.
C1_DispatchProducesCeilBatches ==
    LET N == Len(insts)
        B == config.batch_size
    IN  /\ pc # "raised"
        /\ \A k \in 1..Len(calls) :
              /\ calls[k] = SubSeq(insts, (k - 1) * B + 1, Min(k * B, N))
              /\ Len(calls[k]) >= 1 /\ Len(calls[k]) <= B
        /\ pc = "done" =>
              /\ Len(batched_data) = (N + B - 1) \div B
              /\ Len(calls) = Len(batched_data)
              /\ \A k \in 1..Len(batched_data) :
                    /\ BatchLen(k) = Len(calls[k])
                    /\ k < Len(batched_data) => BatchLen(k) = B
              /\ SumTo([k \in 1..Len(batched_data) |-> BatchLen(k)],
                       Len(batched_data)) = N

\* The split itself, wherever the assemblers return: the slices, the count and
\* the sizes of C1 without the requirement that no assembler raises.
SplitWhereAssembled ==
    LET N == Len(insts)
        B == config.batch_size
    IN  /\ \A k \in 1..Len(calls) :
              /\ calls[k] = SubSeq(insts, (k - 1) * B + 1, Min(k * B, N))
              /\ Len(calls[k]) >= 1 /\ Len(calls[k]) <= B
        /\ pc = "done" =>
              /\ Len(batched_data) = (N + B - 1) \div B
              /\ SumTo([k \in 1..Len(batched_data) |-> BatchLen(k)],
                       Len(batched_data)) = N

\* id of the first sub-word token of a word
FirstPieceId(word) == convert_tokens_to_ids(<<tokenize(word)[1]>>)[1]

\* Python's seq[p] (0-based) where `off` further positions are skipped
At(seq, p, off) == seq[p + off + 1]

\* the alignment claim with the pointer read `off` positions further on
AlignedAt(off) ==
    (IsBert /\ pc \in {"batching", "done"}) =>
        \A k \in 1..Len(batched_data) : \A i \in 1..BatchLen(k) :
            LET inst == InstOf(k, i)
                row == batched_data[k].orig_to_tok_index[i]
            IN  \A j \in 1..Len(inst.input.words) :
                    tokenize(inst.input.ori_words[j]) # <<>> =>
                        /\ row[j] = inst.orig_to_tok_index[j]
                        /\ row[j] + off + 1 <= Len(inst.word_ids)
                        /\ At(inst.word_ids, row[j], off)
                               = FirstPieceId(inst.input.ori_words[j])
                        /\ At(batched_data[k].words[i], row[j], off)
                               = FirstPieceId(inst.input.ori_words[j])

\* C2 (as claimed): after tokenize_instance and bert_batching, for every word j
\* with at least one sub-word token, position orig_to_tok_index[j] of word_ids
\* (and of the batch's row of `words`) holds the id of word j's first sub-word token.
C2_PointerIntoWordIds == AlignedAt(0)

\* C2 (amended): orig_to_tok_index[j] counts the sub-word tokens before word j
\* without the leading [CLS], so position orig_to_tok_index[j] + 1 of word_ids
\* (and of the batch's row of `words`) holds the id of word j's first sub-word token.
C2_PointerPastCls == AlignedAt(1)

\* A batch holds a sentence whose second word starts at token 2 of the
\* sentinel-free sequence (after a two-piece word).
C2_Witness ==
    /\ IsBert /\ pc = "done"
    /\ \E k \in 1..Len(batched_data) : \E i \in 1..BatchLen(k) :
          /\ Len(InstOf(k, i).input.words) = 2
          /\ batched_data[k].orig_to_tok_index[i][2] = 2
          /\ tokenize(InstOf(k, i).input.ori_words[2]) # <<>>

\* largest number of token ids of an instance of batch k
MaxTokLen(k) ==
    Max({Len(InstOf(k, i).word_ids) : i \in 1..BatchLen(k)})

\* C3: in every batch of bert_batching, for every instance i and token position
\* p below the batch's maximum token length, input_mask[i][p] is 1 when p is
\* below the instance's token count (len(word_ids)) and 0 otherwise, and
\* words[i][p] is the instance's id at p when below the token count, else 0.
C3_MaskAndTokenIds ==
    (IsBert /\ pc \in {"batching", "done"}) =>
        \A k \in 1..Len(batched_data) : \A i \in 1..BatchLen(k) :
            LET ids == InstOf(k, i).word_ids
                b == batched_data[k]
            IN  /\ Len(b.input_mask[i]) = MaxTokLen(k)
                /\ Len(b.words[i]) = MaxTokLen(k)
                /\ \A p \in 1..MaxTokLen(k) :
                      /\ b.input_mask[i][p] = IF p <= Len(ids) THEN 1 ELSE 0
                      /\ b.words[i][p] = IF p <= Len(ids) THEN ids[p] ELSE 0

\* A batch of two sentences with different token counts: one row is padded.
C3_Witness ==
    /\ IsBert /\ pc = "done"
    /\ \E k \in 1..Len(batched_data) :
          /\ BatchLen(k) = 2
          /\ Len(InstOf(k, 1).word_ids) # Len(InstOf(k, 2).word_ids)
          /\ \E i \in 1..2 : 0 \in Range(batched_data[k].input_mask[i])

\* largest number of words of an instance of batch k
MaxSeqLen(k) ==
    Max({Len(InstOf(k, i).input.words) : i \in 1..BatchLen(k)})

\* C4: in every batch of simple_batching, for every instance i and word
\* position j below the batch's maximum sequence length, words[i][j] is the
\* instance's word id at j when j is below its word count and 0 otherwise, and
\* word_seq_lens[i] is the instance's word count.
C4_WordIdsAndLengths ==
    (~IsBert /\ pc \in {"batching", "done", "raised"}) =>
        \A k \in 1..Len(batched_data) : \A i \in 1..BatchLen(k) :
            LET inst == InstOf(k, i)
                b == batched_data[k]
                n == Len(inst.input.words)
            IN  /\ b.word_seq_lens[i] = n
                /\ Len(b.words[i]) = MaxSeqLen(k)
                /\ \A j \in 1..MaxSeqLen(k) :
                      b.words[i][j] = IF j <= n THEN inst.word_ids[j] ELSE 0

\* A batch of a two-word and a shorter sentence: the shorter row is padded.
C4_Witness ==
    /\ ~IsBert /\ pc = "done"
    /\ \E k \in 1..Len(batched_data) :
          /\ BatchLen(k) = 2
          /\ Len(InstOf(k, 1).input.words) = 2
          /\ Len(InstOf(k, 2).input.words) < 2
          /\ batched_data[k].words[2][2] = 0

\* C5: in every batch of simple_batching, at every word position at or beyond
\* an instance's word count, chars holds config.char2idx[PAD] at character
\* position 0 and 0 elsewhere and char_seq_lens is 1; below the word count
\* char_seq_lens is the word's character count.
C5_CharPadding ==
    (~IsBert /\ pc \in {"batching", "done", "raised"}) =>
        \A k \in 1..Len(batched_data) : \A i \in 1..BatchLen(k) :
            LET inst == InstOf(k, i)
                b == batched_data[k]
                n == Len(inst.input.words)
            IN  /\ Len(b.chars[i]) = MaxSeqLen(k)
                /\ Len(b.char_seq_lens[i]) = MaxSeqLen(k)
                /\ \A j \in 1..MaxSeqLen(k) :
                      IF j <= n
                      THEN b.char_seq_lens[i][j] = Len(inst.input.words[j])
                      ELSE /\ b.char_seq_lens[i][j] = 1
                           /\ Len(b.chars[i][j]) >= 1
                           /\ b.chars[i][j][1] = config.char2idx_PAD
                           /\ \A c \in 2..Len(b.chars[i][j]) : b.chars[i][j][c] = 0

\* A batch with a padding word whose row is longer than one character and
\* whose padding id is not 0.
C5_Witness ==
    /\ ~IsBert /\ pc = "done" /\ config.char2idx_PAD # 0
    /\ \E k \in 1..Len(batched_data) : \E i \in 1..BatchLen(k) :
          /\ Len(InstOf(k, i).input.words) < MaxSeqLen(k)
          /\ Len(batched_data[k].chars[i][MaxSeqLen(k)]) = 2

\* all sub-word tokens of a sentence, in word order
RECURSIVE AllPieces(_)
AllPieces(ws) == IF ws = <<>> THEN <<>> ELSE tokenize(Head(ws)) \o AllPieces(Tail(ws))

\* C6: after tokenize_instance every instance's word_ids has length (number of
\* sub-word tokens) + 2, starts with the id of '[CLS]', ends with the id of
\* '[SEP]' and holds the ids of the sub-word tokens in word order in between.
C6_SentinelsAroundPieces ==
    (IsBert /\ pc \in {"batching", "done"}) =>
        \A k \in 1..Len(insts) :
            LET ids == insts[k].word_ids
                pieces == AllPieces(insts[k].input.ori_words)
            IN  /\ Len(ids) = Len(pieces) + 2
                /\ ids[1] = Vocab["[CLS]"]
                /\ ids[Len(ids)] = Vocab["[SEP]"]
                /\ \A p \in 1..Len(pieces) : ids[p + 1] = Vocab[pieces[p]]

\* C7: write_results ends with an assertion failure if any instance of the
\* list has gold and prediction sequences of different lengths (an instance
\* without words included), and returns normally only when all are equal.
C7_MismatchAsserts ==
    LET mismatch == \E k \in 1..Len(w_insts) :
                        Len(w_insts[k].output) # Len(w_insts[k].prediction)
    IN  /\ w_pc = "done" => ~mismatch
        /\ (w_pc \in {"done", "AssertionError", "IndexError"} /\ mismatch)
               => w_pc = "AssertionError"

\* C8: load_elmo_vec either attaches every paired matrix, each with as many
\* rows as its instance has words, and returns the matrices' second dimension
\* (that of the last pair; 0 without pairs), or fails the assertion at the
\* first pair whose row count differs: the instances up to and including that
\* pair hold their matrices, the later ones are untouched.
C8_AttachOrAssert ==
    /\ e_pc = "done" =>
          /\ \A k \in 1..n_pairs :
                /\ e_insts[k].elmo_vec = all_vecs[k]
                /\ all_vecs[k].rows = e_insts[k].n_words
          /\ \A k \in (n_pairs + 1)..Len(e_insts) : e_insts[k].elmo_vec = None
          /\ size = IF n_pairs = 0 THEN 0 ELSE all_vecs[n_pairs].cols
          /\ (\A k \in 1..n_pairs : all_vecs[k].cols = all_vecs[1].cols)
                => \A k \in 1..n_pairs : size = all_vecs[k].cols
    /\ e_pc = "AssertionError" =>
          /\ e_k < n_pairs
          /\ \A k \in 1..e_k : all_vecs[k].rows = e_insts[k].n_words
          /\ all_vecs[e_k + 1].rows # e_insts[e_k + 1].n_words
          /\ \A k \in 1..(e_k + 1) : e_insts[k].elmo_vec = all_vecs[k]
          /\ \A k \in (e_k + 2)..Len(e_insts) : e_insts[k].elmo_vec = None

\* The assertion failed at the second pair, with a later instance left untouched,
\* or at the first pair with a pair left over.
C8_Witness ==
    /\ e_pc = "AssertionError"
    /\ e_k + 1 < n_pairs
    /\ e_insts[e_k + 1].elmo_vec # None

\* `name` is `target` (written in lower case) in some letter case
UpperChar(c) ==
    CASE c = "a" -> "A" [] c = "d" -> "D" [] c = "g" -> "G" [] c = "m" -> "M"
      [] c = "s" -> "S" [] c = "w" -> "W" [] OTHER -> c

IsCaseOf(name, target) ==
    /\ Len(name) = Len(target)
    /\ \A i \in 1..Len(name) : name[i] \in {target[i], UpperChar(target[i])}

\* C9: get_optimizer returns an SGD, Adam or AdamW optimizer for the names
\* 'sgd', 'adam', 'adamw' in any letter case (AdamW with the configured
\* learning rate and eps 1e-8); for every other name it prints the name and
\* terminates the process without returning an optimizer.
C9_OptimizerByLowercasedName ==
    (o_pc \in {"ready", "exited"} /\ last_epoch = 0 /\ stdout # <<>>) =>
        LET name == o_config.optimizer
        IN  IF IsCaseOf(name, <<"s","g","d">>)
            THEN o_pc = "ready" /\ optimizer.kind = "SGD"
            ELSE IF IsCaseOf(name, <<"a","d","a","m">>)
            THEN o_pc = "ready" /\ optimizer.kind = "Adam"
            ELSE IF IsCaseOf(name, <<"a","d","a","m","w">>)
            THEN /\ o_pc = "ready" /\ optimizer.kind = "AdamW"
                 /\ Len(optimizer.param_groups) = 1
                 /\ optimizer.param_groups[1].lr = o_config.learning_rate
                 /\ optimizer.param_groups[1].eps = <<1, 100000000>>
            ELSE /\ o_pc = "exited"
                 /\ optimizer = NoOptimizer
                 /\ stdout = << <<"Illegal optimizer", name>> >>

\* An AdamW optimizer was built from a name in mixed case.
C9_Witness ==
    /\ o_pc = "ready" /\ last_epoch = 0 /\ stdout # <<>>
    /\ o_config.optimizer = <<"A","d","a","m","W">>
    /\ optimizer.kind = "AdamW"

\* after a call with epoch e every group's lr is base_lr / (1 + decay * (e - 1))
RatesDecayed ==
    last_epoch >= 1 =>
        \A g \in 1..Len(optimizer.param_groups) :
            LET lr == optimizer.param_groups[g].lr
                base == o_config.learning_rate
                decay == o_config.lr_decay
            IN  /\ lr[1] * base[2] * (decay[2] + decay[1] * (last_epoch - 1))
                       = base[1] * decay[2] * lr[2]
                /\ lr = optimizer.param_groups[1].lr
                /\ last_epoch = 1 => lr = base

\* a call of lr_decay keeps the optimizer, its groups and all they hold but 'lr'
OnlyRatesChange ==
    o_pc = "ready" =>
        /\ optimizer'.kind = optimizer.kind
        /\ Len(optimizer'.param_groups) = Len(optimizer.param_groups)
        /\ \A g \in 1..Len(optimizer.param_groups) :
              /\ DOMAIN optimizer'.param_groups[g] = DOMAIN optimizer.param_groups[g]
              /\ \A key \in DOMAIN optimizer.param_groups[g] \ {"lr"} :
                    optimizer'.param_groups[g][key] = optimizer.param_groups[g][key]
        /\ o_config' = o_config

\* C10: after any sequence of lr_decay calls with epochs >= 1 every parameter
\* group has the same learning rate, base_lr / (1 + decay * (e - 1)) for the
\* epoch e of the most recent call (base_lr exactly for e = 1: the decay never
\* compounds); a call changes nothing of the optimizer or its groups but 'lr'.
C10_RatesFromBaseOnly == []RatesDecayed /\ [][OnlyRatesChange]_vars

\* Two calls were made on an optimizer with two groups, the last with epoch 2
\* and a decay that is not 0.
C10_Witness ==
    /\ last_epoch = 2
    /\ Len(stdout) >= 2
    /\ Len(optimizer.param_groups) = 2
    /\ optimizer.param_groups[1].weight_decay # optimizer.param_groups[2].weight_decay
    /\ o_config.lr_decay # Zero

====
